---- MODULE Spec2Model ----
(***************************************************************************)
(* A model of bulbs/element.py: the Element / Vertex / Edge containers,    *)
(* their attribute interception (__setattr__ / __getattr__), equality,     *)
(* and the VertexProxy / EdgeProxy operations against the client.          *)
(*                                                                         *)
(* Python values are strings here: scalars ("v1", "False"), references to  *)
(* dict objects (the addresses in Addrs), Result objects (ResToks) and a   *)
(* few tokens.  A dict is a total function over Names whose missing keys   *)
(* map to Absent, so `k in d` is d[k] # Absent.                            *)
(***************************************************************************)
EXTENDS Integers, Sequences, FiniteSets, TLC

VARIABLES
    cls,        \* cls[e]: the concrete class of element object e, or None
    dict,       \* dict[e]: the instance __dict__ of e
    heap,       \* heap[a]: the contents of the dict object at address a
    result,     \* result[e]: the Result object handed to e._initialize: its
                \* fields, the address of its property map, and the
                \* properties as they were decoded
    pretty,     \* names installed as properties on class Element at run time
    log,        \* log[e]: the attribute writes made on e since construction
    initAt,     \* initAt[e]: Len(log[e]) when _initialize ran, -1 before
    last,       \* the last element operation: its arguments and its outcome
    call,       \* the last proxy call: its arguments and its outcome
    net,        \* the client interactions made by the last proxy call
    pc,         \* pc[c]: where caller c is in VertexProxy.get_or_create
    arg,        \* arg[c]: the index value c calls get_or_create with
    found,      \* found[c]: what the index lookup of c's call returned
                \* (0: None)
    vertex,     \* vertex[c]: the local `vertex` of c's call (0: None)
    created,    \* created[c]: the create requests c's call has issued
    calls,      \* calls[c]: the calls of get_or_create c has started
    index,      \* index[x]: the vertices the index holds under value x
    nverts,     \* the number of vertices the server holds
    autoindex   \* whether the server indexes a vertex when it creates it

proxyVars == <<call, net>>
raceVars == <<pc, arg, found, vertex, created, calls, index, nverts, autoindex>>
vars == <<cls, dict, heap, result, pretty, log, initAt, last, proxyVars, raceVars>>

----------------------------------------------------------------------------
(* Bounds of the model *)

\* The number of attribute writes (over all elements) in one behaviour.
MaxWrites == 2

\* The number of attribute writes in one behaviour of the equality
\* specification.
MaxEqWrites == 1

\* The number of get_or_create calls one caller makes.
MaxCalls == 2

----------------------------------------------------------------------------
(* The universe of values *)

Elems == {"e1", "e2"}

Absent == "<absent>"
None == "None"
PyFalse == "False"
PyTrue == "True"
Method == "<bound method>"
AttributeError == "AttributeError"
TypeError == "TypeError"

\* Values a caller writes: two distinct scalars, one of them Python's False.
Vals == {"v1", PyFalse}

\* The attribute names of the model: property keys, names bound to
\* properties or methods on the classes, and the instance attributes.
Names == {"name", "age", "_id", "_type", "eid", "_label", "_outV", "_inV", "map",
          "_data", "_initialized", "_client", "_result", "_vertices", "_edges"}

\* The names attribute writes are made to.
WriteKeys == {"name", "_id", "eid", "_label", "map", "_data", "_initialized",
              "_result"}

\* Addresses of dict objects: the {} of __init__, the Result's property map,
\* and the copy _initialize makes of it.
D0(e) == "d0_" \o e
RM(e) == "rm_" \o e
DC(e) == "dc_" \o e
ElemAddrs == {D0(e) : e \in Elems} \cup {RM(e) : e \in Elems} \cup {DC(e) : e \in Elems}

\* The dict a caller passes as _data, and the {} build_data makes.
Caller == "caller"
Fresh == "fresh"

\* A mutable value (a list, a map) nested in a decoded property map.
Nested == "nested"
Addrs == ElemAddrs \cup {Caller, Fresh, Nested}

ResTok(e) == "result_" \o e
ResToks == {ResTok(e) : e \in Elems}

EmptyMap == [k \in Names |-> Absent]
Keys(m) == {k \in Names : m[k] # Absent}

\* The decoded responses the client may hand over.
Ids == {"1", "2"}
PropMaps == {EmptyMap, [EmptyMap EXCEPT !["name"] = "v1"]}
VertexShapes == [id : Ids, type : {"vertex"}, outV : {None}, inV : {None},
                 label : {None}, props : PropMaps]
EdgeShapes == [id : Ids, type : {"edge"}, outV : {"1"}, inV : {"2"},
               label : {"knows"}, props : PropMaps]
Shapes == VertexShapes \cup EdgeShapes
NoResult == [id |-> None, type |-> None, outV |-> None, inV |-> None,
             label |-> None, map |-> None, props |-> EmptyMap]

----------------------------------------------------------------------------
(* The classes *)

Classes == {"Vertex", "Edge"}

get_base_type(c) == IF c = "Vertex" THEN "vertex" ELSE "edge"

\* config.id_var, the name _set_pretty_id installs on Element.
IdVar == "eid"

ElementProperties == {"_id", "_type"}
EdgeProperties == {"_outV", "_inV", "_label"}
ElementMethods == {"get", "map", "get_base_type", "get_element_key",
                   "get_index_name", "get_proxy_class", "_set_pretty_id",
                   "_initialize"}
VertexMethods == {"outE", "inE", "bothE", "outV", "inV", "bothV", "save"}
EdgeMethods == {"outV", "inV", "label", "save"}

\* k is a property (a data descriptor) of class c, p being the names
\* installed on Element so far.
IsProperty(c, p, k) ==
    k \in ElementProperties \cup p \cup (IF c = "Edge" THEN EdgeProperties ELSE {})

IsMethod(c, k) ==
    k \in ElementMethods \cup (IF c = "Vertex" THEN VertexMethods ELSE EdgeMethods)

----------------------------------------------------------------------------
(* Attribute writes.  An object state st is [d, h, err]: the instance       *)
(* __dict__, the heap, and the exception raised so far (None: none).       *)

\* object.__setattr__: a property without a setter refuses the write.
ObjectSetAttr(st, c, p, k, v) ==
    IF IsProperty(c, p, k)
    THEN [st EXCEPT !.err = AttributeError]
    ELSE [st EXCEPT !.d[k] = v]

\* A store that only updates a key the dict already has.
DataSetItem_OnlyExisting(st, k, v) ==
    LET ref == st.d["_data"]
    IN  IF ref \in Addrs
        THEN (IF st.h[ref][k] # Absent THEN [st EXCEPT !.h[ref][k] = v] ELSE st)
        ELSE [st EXCEPT !.err = TypeError]

\* self._data[key] = value
DataSetItem(st, k, v) ==
    LET ref == st.d["_data"]
    IN  IF ref \in Addrs
        THEN [st EXCEPT !.h[ref][k] = v]
        ELSE [st EXCEPT !.err = TypeError]

\* The test without `key in dict_`.
TakesFieldPath_FlagOnly(d, k) ==
    d["_initialized"] \in {Absent, PyFalse}

\* The branch __setattr__ takes: dict_.get("_initialized", False) is False,
\* or the key is in __dict__.
TakesFieldPath(d, k) ==
    d[k] # Absent \/ d["_initialized"] \in {Absent, PyFalse}

\* Element.__setattr__; a statement after a raised exception does not run.
SetAttrEff(st, c, p, k, v) ==
    IF st.err # None THEN st
    ELSE IF TakesFieldPath(st.d, k)
         THEN ObjectSetAttr(st, c, p, k, v)
         ELSE DataSetItem(st, k, v)

----------------------------------------------------------------------------
(* Attribute reads *)

\* Element.__getattr__: self._data[name], any failure an AttributeError.
DataLookup(d, h, k) ==
    LET ref == d["_data"]
    IN  IF ref \in Addrs /\ h[ref][k] # Absent THEN h[ref][k] ELSE AttributeError

\* The lookup of a name that is no property: the instance __dict__, then
\* the class, then __getattr__.
LookupAttr(d, h, c, k) ==
    IF d[k] # Absent THEN d[k]
    ELSE IF IsMethod(c, k) THEN Method
    ELSE DataLookup(d, h, k)

\* What a property of the classes returns: self._result.get_<field>().
PropertyGet(d, h, r, c, k) ==
    LET tok == LookupAttr(d, h, c, "_result")
    IN  IF tok \notin ResToks THEN AttributeError
        ELSE LET res == r[CHOOSE e \in Elems : ResTok(e) = tok]
             IN  CASE k \in {"_id", IdVar} -> res.id
                   [] k = "_type" -> res.type
                   [] k = "_outV" -> res.outV
                   [] k = "_inV" -> res.inV
                   [] k = "_label" -> res.label
                   [] OTHER -> AttributeError

\* A read that looks in the property data before the properties.
GetAttr_DataFirst(d, h, r, c, p, k) ==
    IF DataLookup(d, h, k) # AttributeError THEN DataLookup(d, h, k)
    ELSE IF IsProperty(c, p, k) THEN PropertyGet(d, h, r, c, k)
    ELSE LookupAttr(d, h, c, k)

\* The value of the expression  element.k ; a property that raises
\* AttributeError falls back to __getattr__.
GetAttr(d, h, r, c, p, k) ==
    IF IsProperty(c, p, k)
    THEN LET x == PropertyGet(d, h, r, c, k)
         IN  IF x = AttributeError THEN DataLookup(d, h, k) ELSE x
    ELSE LookupAttr(d, h, c, k)

\* Element.map(): the object self._data names; as a value, the reference
\* together with the contents it has.
MapOf(d, h) ==
    LET ref == d["_data"]
    IN  <<ref, IF ref \in Addrs THEN h[ref] ELSE EmptyMap>>

----------------------------------------------------------------------------
(* Construction and initialization *)

\* Element.__init__: self._client = client; self._data = {}
ElementInit(e, c, p, h) ==
    LET st0 == [d |-> EmptyMap, h |-> [h EXCEPT ![D0(e)] = EmptyMap], err |-> None]
        st1 == SetAttrEff(st0, c, p, "_client", "client")
    IN  SetAttrEff(st1, c, p, "_data", D0(e))

\* Element._set_pretty_id: setattr(Element, client.config.id_var, property(fget))
SetPrettyId(p) == p \cup {IdVar}

\* _initialize without the statement that copies the Result's map.
InitializeEff_NoCopy(st, e, c, p) ==
    LET st1 == SetAttrEff(st, c, p, "_result", ResTok(e))
        p2  == SetPrettyId(p)
        st3 == SetAttrEff(st1, c, p2, "_vertices", "VertexProxy")
        st4 == SetAttrEff(st3, c, p2, "_edges", "EdgeProxy")
    IN  SetAttrEff(st4, c, p2, "_initialized", PyTrue)

\* Element._initialize(result), the Result's property map being at RM(e).
InitializeEff(st, e, c, p) ==
    LET st1 == SetAttrEff(st, c, p, "_result", ResTok(e))
        \* result.get_map().copy(): a new dict with the same items
        cp  == [st1 EXCEPT !.h[DC(e)] = st1.h[RM(e)]]
        st2 == IF st1.err # None THEN st1 ELSE SetAttrEff(cp, c, p, "_data", DC(e))
        p2  == SetPrettyId(p)
        st3 == SetAttrEff(st2, c, p2, "_vertices", "VertexProxy")
        st4 == SetAttrEff(st3, c, p2, "_edges", "EdgeProxy")
    IN  SetAttrEff(st4, c, p2, "_initialized", PyTrue)

----------------------------------------------------------------------------
(* Equality *)

\* __eq__ without the comparison of the classes.
ElementEq_NoClass(a, b) ==
    LET ida == GetAttr(dict[a], heap, result, cls[a], pretty, "_id")
        idb == GetAttr(dict[b], heap, result, cls[b], pretty, "_id")
        da  == LookupAttr(dict[a], heap, cls[a], "_data")
        db  == LookupAttr(dict[b], heap, cls[b], "_data")
    IN  IF idb = AttributeError \/ ida = AttributeError THEN AttributeError
        ELSE IF idb # ida THEN PyFalse
        ELSE IF da \in Addrs /\ db \in Addrs
             THEN (IF heap[db] = heap[da] THEN PyTrue ELSE PyFalse)
             ELSE (IF db = da /\ da \notin Addrs THEN PyTrue ELSE PyFalse)

\* Element.__eq__(a, b); isinstance(b, Element) holds of every element.
\* `and` stops at the first false operand; an accessor that raises ends it.
ElementEq(a, b) ==
    LET ida == GetAttr(dict[a], heap, result, cls[a], pretty, "_id")
        idb == GetAttr(dict[b], heap, result, cls[b], pretty, "_id")
        da  == LookupAttr(dict[a], heap, cls[a], "_data")
        db  == LookupAttr(dict[b], heap, cls[b], "_data")
    IN  IF cls[b] # cls[a] THEN PyFalse
        ELSE IF idb = AttributeError \/ ida = AttributeError THEN AttributeError
        ELSE IF idb # ida THEN PyFalse
        ELSE IF da \in Addrs /\ db \in Addrs
             THEN (IF heap[db] = heap[da] THEN PyTrue ELSE PyFalse)
             ELSE (IF db = da /\ da \notin Addrs THEN PyTrue ELSE PyFalse)

\* Element.__ne__: not self.__eq__(element)
ElementNe(a, b) ==
    LET r == ElementEq(a, b)
    IN  IF r = AttributeError THEN r ELSE IF r = PyTrue THEN PyFalse ELSE PyTrue

----------------------------------------------------------------------------
(* The element specification: elements constructed, then initialized,      *)
(* written, read and compared.                                             *)

NoOp == [op |-> "none", e |-> None, k |-> None, v |-> None, ret |-> None]

Callers == {"c1", "c2"}
IndexVals == {"James", "Julie"}

NoCall == [op |-> "none", id |-> None, base |-> None, basemap |-> EmptyMap,
           kw |-> EmptyMap, label |-> None, outV |-> None, inV |-> None,
           elem |-> None, ret |-> None, err |-> None]

\* No caller is in get_or_create, and the server holds no vertex; ai is
\* whether it indexes the vertices it creates.
NoRace(ai) ==
    /\ pc = [c \in Callers |-> "idle"]
    /\ arg = [c \in Callers |-> "James"]
    /\ found = [c \in Callers |-> 0]
    /\ vertex = [c \in Callers |-> 0]
    /\ created = [c \in Callers |-> 0]
    /\ calls = [c \in Callers |-> 0]
    /\ index = [x \in IndexVals |-> {}]
    /\ nverts = 0
    /\ autoindex = ai

\* No proxy call was made and no caller is in get_or_create.
NoCalls ==
    /\ call = NoCall
    /\ net = <<>>
    /\ NoRace(TRUE)

\* The state after the constructors ran: cs[e] is the class of element e,
\* None for an element object that does not exist.
Constructed(cs) ==
    /\ cls = cs
    /\ pretty = {}
    /\ heap = [a \in Addrs |-> EmptyMap]
    /\ dict = [e \in Elems |->
                 IF cs[e] = None THEN EmptyMap
                 ELSE ElementInit(e, cs[e], {}, [a \in Addrs |-> EmptyMap]).d]
    /\ result = [e \in Elems |-> NoResult]
    /\ log = [e \in Elems |-> <<>>]
    /\ initAt = [e \in Elems |-> -1]
    /\ last = NoOp

InitWith(cs) == Constructed(cs) /\ NoCalls

\* One element, a Vertex or an Edge.
Init == \E c \in Classes : InitWith([e \in Elems |-> IF e = "e1" THEN c ELSE None])

TotalWrites == Len(log["e1"]) + Len(log["e2"])

\* initialize_element's call of e._initialize(result), once per element.
Initialize(e, shape) ==
    /\ cls[e] # None
    /\ initAt[e] = -1
    /\ shape.type = get_base_type(cls[e])
    /\ LET res == [id |-> shape.id, type |-> shape.type, outV |-> shape.outV,
                   inV |-> shape.inV, label |-> shape.label, map |-> RM(e),
                   props |-> shape.props]
           st0 == [d |-> dict[e], h |-> [heap EXCEPT ![RM(e)] = shape.props],
                   err |-> None]
           st  == InitializeEff(st0, e, cls[e], pretty)
       IN  /\ result' = [result EXCEPT ![e] = res]
           /\ dict' = [dict EXCEPT ![e] = st.d]
           /\ heap' = st.h
           /\ pretty' = SetPrettyId(pretty)
           /\ last' = [op |-> "initialize", e |-> e, k |-> None, v |-> None,
                       ret |-> st.err]
    /\ initAt' = [initAt EXCEPT ![e] = Len(log[e])]
    /\ UNCHANGED <<cls, log, proxyVars, raceVars>>

\* The statement  e.k = v
SetAttr(e, k, v) ==
    /\ cls[e] # None
    /\ TotalWrites < MaxWrites
    /\ LET st == SetAttrEff([d |-> dict[e], h |-> heap, err |-> None],
                            cls[e], pretty, k, v)
       IN  /\ dict' = [dict EXCEPT ![e] = st.d]
           /\ heap' = st.h
           /\ last' = [op |-> "setattr", e |-> e, k |-> k, v |-> v, ret |-> st.err]
    /\ log' = [log EXCEPT ![e] = Append(@, [k |-> k, v |-> v])]
    /\ UNCHANGED <<cls, result, pretty, initAt, proxyVars, raceVars>>

\* The expression  e.k
ReadAttr(e, k) ==
    /\ cls[e] # None
    /\ last' = [op |-> "getattr", e |-> e, k |-> k, v |-> None,
                ret |-> GetAttr(dict[e], heap, result, cls[e], pretty, k)]
    /\ UNCHANGED <<cls, dict, heap, result, pretty, log, initAt, proxyVars, raceVars>>

\* The expressions  a == b  and  a != b
Compare(a, b) ==
    /\ cls[a] # None /\ cls[b] # None
    /\ last' = [op |-> "eq", e |-> a, k |-> b, v |-> None, ret |-> ElementEq(a, b)]
    /\ UNCHANGED <<cls, dict, heap, result, pretty, log, initAt, proxyVars, raceVars>>

CompareNe(a, b) ==
    /\ cls[a] # None /\ cls[b] # None
    /\ last' = [op |-> "ne", e |-> a, k |-> b, v |-> None, ret |-> ElementNe(a, b)]
    /\ UNCHANGED <<cls, dict, heap, result, pretty, log, initAt, proxyVars, raceVars>>

Next ==
    \/ \E e \in Elems, shape \in Shapes : Initialize(e, shape)
    \/ \E e \in Elems, k \in WriteKeys, v \in Vals : SetAttr(e, k, v)
    \/ \E e \in Elems, k \in WriteKeys : ReadAttr(e, k)

Spec == Init /\ [][Next]_vars

----------------------------------------------------------------------------
(* The equality specification: two elements, initialized, written and      *)
(* compared.                                                               *)

\* The names written here: a property key, a structural name, and _data.
EqKeys == {"name", "_id", "_data"}

InitEq == \E cs \in [Elems -> Classes] : InitWith(cs)

NextEq ==
    \/ \E e \in Elems, shape \in Shapes : Initialize(e, shape)
    \/ \E e \in Elems, k \in EqKeys, v \in Vals :
         TotalWrites < MaxEqWrites /\ SetAttr(e, k, v)
    \/ \E a \in Elems, b \in Elems : Compare(a, b)
    \/ \E a \in Elems, b \in Elems : CompareNe(a, b)

EqSpec == InitEq /\ [][NextEq]_vars

----------------------------------------------------------------------------
(* The proxies.  The client is the environment: each request it is sent   *)
(* ends "ok" (a Response), in a LookupError, or in another error.          *)

Response == "resp"
LookupError == "LookupError"
IOError == "IOError"
AssertionError == "AssertionError"
Outcomes == {"ok", LookupError, IOError}

\* The dicts callers pass as _data, and the keyword fields they give.
BaseMaps == {EmptyMap, [EmptyMap EXCEPT !["name"] = "v1"],
             [EmptyMap EXCEPT !["name"] = "v1", !["age"] = "v1"]}
KwMaps == {EmptyMap, [EmptyMap EXCEPT !["name"] = PyFalse],
           [EmptyMap EXCEPT !["age"] = "v1"]}

\* The _data argument of a call: None, or the caller's dict holding b.
Bases == {[ref |-> None, map |-> EmptyMap]} \cup [ref : {Caller}, map : BaseMaps]

\* dict.update: the items of kw put into m.
DictUpdate(m, kw) == [k \in Names |-> IF kw[k] # Absent THEN kw[k] ELSE m[k]]

\* A build_data that merges into a copy of _data and leaves _data alone.
build_data_Copy(h, ref, kw) ==
    IF ref = None
    THEN [h |-> [h EXCEPT ![Fresh] = DictUpdate(EmptyMap, kw)], data |-> Fresh,
          err |-> None]
    ELSE IF ref \in Addrs
    THEN [h |-> [h EXCEPT ![Fresh] = DictUpdate(h[ref], kw)], data |-> Fresh,
          err |-> None]
    ELSE [h |-> h, data |-> None, err |-> AttributeError]

\* build_data(_data, kwds) on heap h: the heap after it, the dict it returns
\* and the exception it raises (a _data that is no dict has no update).
build_data(h, ref, kw) ==
    IF ref = None
    THEN [h |-> [h EXCEPT ![Fresh] = DictUpdate(EmptyMap, kw)], data |-> Fresh,
          err |-> None]
    ELSE IF ref \in Addrs
    THEN [h |-> [h EXCEPT ![ref] = DictUpdate(h[ref], kw)], data |-> ref,
          err |-> None]
    ELSE [h |-> h, data |-> None, err |-> AttributeError]

\* One request to the client: the method, its arguments, the payload it is
\* passed (a reference, and the contents it has then) and how it ends.
Request(method, id, payload, h, outcome) ==
    [method |-> method, id |-> id, outV |-> None, label |-> None, inV |-> None,
     payload |-> payload,
     content |-> IF payload \in Addrs THEN h[payload] ELSE EmptyMap,
     outcome |-> outcome]

\* What a proxy call comes to: the heap, the requests made, the value
\* returned and the exception raised.
Outcome(h, reqs, ret, err) == [h |-> h, net |-> reqs, ret |-> ret, err |-> err]

\* A get that lets the LookupError through.
ProxyGet_Propagates(h, method, id, outcome, elem) ==
    LET req == Request(method, id, None, h, outcome)
    IN  IF outcome = "ok" THEN Outcome(h, <<req>>, elem, None)
        ELSE Outcome(h, <<req>>, None, outcome)

\* VertexProxy.get / EdgeProxy.get: elem is the element initialize_element
\* returns for the Response.
ProxyGet(h, method, id, outcome, elem) ==
    LET req == Request(method, id, None, h, outcome)
    IN  IF outcome = "ok" THEN Outcome(h, <<req>>, elem, None)
        ELSE IF outcome = LookupError THEN Outcome(h, <<req>>, None, None)
        ELSE Outcome(h, <<req>>, None, outcome)

\* VertexProxy.create
VertexCreateEff(h, ref, kw, outcome, elem) ==
    LET b == build_data(h, ref, kw)
        req == Request("create_vertex", None, b.data, b.h, outcome)
    IN  IF b.err # None THEN Outcome(b.h, <<>>, None, b.err)
        ELSE IF outcome = "ok" THEN Outcome(b.h, <<req>>, elem, None)
        ELSE Outcome(b.h, <<req>>, None, outcome)

\* VertexProxy.update: the client is passed _data, and nothing is returned.
VertexUpdateEff(h, id, ref, kw, outcome) ==
    LET b == build_data(h, ref, kw)
        req == Request("update_vertex", id, ref, b.h, outcome)
    IN  IF b.err # None THEN Outcome(b.h, <<>>, None, b.err)
        ELSE IF outcome = "ok" THEN Outcome(b.h, <<req>>, None, None)
        ELSE Outcome(b.h, <<req>>, None, outcome)

\* EdgeProxy.update
EdgeUpdateEff(h, id, ref, kw, outcome) ==
    LET b == build_data(h, ref, kw)
        req == Request("update_edge", id, b.data, b.h, outcome)
    IN  IF b.err # None THEN Outcome(b.h, <<>>, None, b.err)
        ELSE IF outcome = "ok" THEN Outcome(b.h, <<req>>, Response, None)
        ELSE Outcome(b.h, <<req>>, None, outcome)

\* coerce_id: an identifier passes through.
coerce_id(v) == v

\* coerce_vertex: the _id of a Vertex, coerce_id of anything else.
coerce_vertex(v) ==
    IF v \in Elems /\ cls[v] = "Vertex"
    THEN GetAttr(dict[v], heap, result, cls[v], pretty, "_id")
    ELSE coerce_id(v)

\* create without the assertion on the label.
EdgeCreateEff_NoAssert(h, outV, label, inV, ref, kw, outcome, elem) ==
    LET b == build_data(h, ref, kw)
        req == [Request("create_edge", None, b.data, b.h, outcome)
                   EXCEPT !.outV = coerce_vertex(outV), !.label = label,
                          !.inV = coerce_vertex(inV)]
    IN  IF b.err # None THEN Outcome(b.h, <<>>, None, b.err)
        ELSE IF outcome = "ok" THEN Outcome(b.h, <<req>>, elem, None)
        ELSE Outcome(b.h, <<req>>, None, outcome)

\* EdgeProxy.create
EdgeCreateEff(h, outV, label, inV, ref, kw, outcome, elem) ==
    IF label = None THEN Outcome(h, <<>>, None, AssertionError)
    ELSE LET b == build_data(h, ref, kw)
             req == [Request("create_edge", None, b.data, b.h, outcome)
                        EXCEPT !.outV = coerce_vertex(outV), !.label = label,
                               !.inV = coerce_vertex(inV)]
         IN  IF b.err # None THEN Outcome(b.h, <<>>, None, b.err)
             ELSE IF outcome = "ok" THEN Outcome(b.h, <<req>>, elem, None)
             ELSE Outcome(b.h, <<req>>, None, outcome)

\* initialize_element(client, result): an element of the class registered
\* for the result's type, constructed and initialized, in slot e.
NewElement(e, shape, h, p) ==
    LET c   == IF shape.type = "vertex" THEN "Vertex" ELSE "Edge"
        st0 == ElementInit(e, c, p, [h EXCEPT ![RM(e)] = shape.props,
                                              ![DC(e)] = EmptyMap])
    IN  [c |-> c, st |-> InitializeEff(st0, e, c, p),
         res |-> [id |-> shape.id, type |-> shape.type, outV |-> shape.outV,
                  inV |-> shape.inV, label |-> shape.label, map |-> RM(e),
                  props |-> shape.props]]

\* The state after a proxy call that came to o; when it returned the
\* element e, initialize_element made e from shape.
Returned(o, e, shape) ==
    /\ net' = o.net
    /\ IF o.ret = e /\ e \in Elems
       THEN LET n == NewElement(e, shape, o.h, pretty)
            IN  /\ cls' = [cls EXCEPT ![e] = n.c]
                /\ dict' = [dict EXCEPT ![e] = n.st.d]
                /\ heap' = n.st.h
                /\ result' = [result EXCEPT ![e] = n.res]
                /\ pretty' = SetPrettyId(pretty)
                /\ initAt' = [initAt EXCEPT ![e] = 0]
       ELSE /\ heap' = o.h
            /\ UNCHANGED <<cls, dict, result, pretty, initAt>>
    /\ UNCHANGED <<log, last, raceVars>>

\* The heap when the call is made: the caller's dict holds what it passes;
\* the dicts of the call before are gone.
BaseHeap(base) == [heap EXCEPT ![Caller] = base.map, ![Fresh] = EmptyMap]
NoBase == [ref |-> None, map |-> EmptyMap]

\* The properties the server holds of the elements it answers with.
StoredProps == [EmptyMap EXCEPT !["name"] = "v1"]

\* The slot of the variable the caller binds a returned element to: one for
\* vertices, one for edges.
VertexSlot == "e1"
EdgeSlot == "e2"

\* g.vertices.create(_data, **kwds)
VertexCreate(base, kw, outcome, id, props) ==
    LET h == BaseHeap(base)
        o == VertexCreateEff(h, base.ref, kw, outcome, VertexSlot)
        shape == [id |-> id, type |-> "vertex", outV |-> None, inV |-> None,
                  label |-> None, props |-> props]
    IN  /\ call' = [NoCall EXCEPT !.op = "vertex_create", !.base = base.ref,
                       !.basemap = base.map, !.kw = kw, !.ret = o.ret,
                       !.err = o.err]
        /\ Returned(o, VertexSlot, shape)

\* g.vertices.get(_id)
VertexGet(id, outcome, props) ==
    LET o == ProxyGet(BaseHeap(NoBase), "get_vertex", id, outcome, VertexSlot)
        shape == [id |-> id, type |-> "vertex", outV |-> None, inV |-> None,
                  label |-> None, props |-> props]
    IN  /\ call' = [NoCall EXCEPT !.op = "vertex_get", !.id = id, !.ret = o.ret,
                       !.err = o.err]
        /\ Returned(o, VertexSlot, shape)

\* g.edges.get(_id)
EdgeGet(id, outcome, props) ==
    LET o == ProxyGet(BaseHeap(NoBase), "get_edge", id, outcome, EdgeSlot)
        shape == [id |-> id, type |-> "edge", outV |-> "1", inV |-> "2",
                  label |-> "knows", props |-> props]
    IN  /\ call' = [NoCall EXCEPT !.op = "edge_get", !.id = id, !.ret = o.ret,
                       !.err = o.err]
        /\ Returned(o, EdgeSlot, shape)

\* g.vertices.update(_id, _data, **kwds)
VertexUpdate(id, base, kw, outcome) ==
    LET o == VertexUpdateEff(BaseHeap(base), id, base.ref, kw, outcome)
    IN  /\ call' = [NoCall EXCEPT !.op = "vertex_update", !.id = id,
                       !.base = base.ref, !.basemap = base.map, !.kw = kw,
                       !.ret = o.ret, !.err = o.err]
        /\ Returned(o, None, NoResult)

\* g.edges.update(_id, _data, **kwds)
EdgeUpdate(id, base, kw, outcome) ==
    LET o == EdgeUpdateEff(BaseHeap(base), id, base.ref, kw, outcome)
    IN  /\ call' = [NoCall EXCEPT !.op = "edge_update", !.id = id,
                       !.base = base.ref, !.basemap = base.map, !.kw = kw,
                       !.ret = o.ret, !.err = o.err]
        /\ Returned(o, None, NoResult)

\* g.edges.create(outV, label, inV, _data, **kwds)
EdgeCreate(outV, label, inV, base, kw, outcome, id, props) ==
    LET o == EdgeCreateEff(BaseHeap(base), outV, label, inV, base.ref, kw,
                           outcome, EdgeSlot)
        shape == [id |-> id, type |-> "edge", outV |-> coerce_vertex(outV),
                  inV |-> coerce_vertex(inV), label |-> label, props |-> props]
    IN  /\ call' = [NoCall EXCEPT !.op = "edge_create", !.base = base.ref,
                       !.basemap = base.map, !.kw = kw, !.label = label,
                       !.outV = outV, !.inV = inV, !.ret = o.ret, !.err = o.err]
        /\ Returned(o, EdgeSlot, shape)

\* Vertex.save / Edge.save: self._vertices.update(self._id, self._data),
\* self._edges.update(self._id, self._data)
Save(e, outcome) ==
    /\ cls[e] # None
    /\ initAt[e] >= 0
    /\ LET id  == GetAttr(dict[e], heap, result, cls[e], pretty, "_id")
           ref == LookupAttr(dict[e], heap, cls[e], "_data")
           o   == IF cls[e] = "Vertex"
                  THEN VertexUpdateEff(BaseHeap(NoBase), id, ref, EmptyMap, outcome)
                  ELSE EdgeUpdateEff(BaseHeap(NoBase), id, ref, EmptyMap, outcome)
       IN  /\ call' = [NoCall EXCEPT
                          !.op = IF cls[e] = "Vertex" THEN "vertex_save" ELSE "edge_save",
                          !.id = id, !.base = ref, !.elem = e,
                          !.basemap = IF ref \in Addrs THEN heap[ref] ELSE EmptyMap,
                          !.ret = o.ret, !.err = o.err]
           /\ Returned(o, None, NoResult)

InitProxy == InitWith([e \in Elems |-> None])

\* The vertices a caller can pass to create: an identifier, or the Vertex
\* it holds.
VertexArgs == {"1"} \cup {x \in Elems : cls[x] = "Vertex"}

NextProxy ==
    \/ \E base \in Bases, kw \in KwMaps, outcome \in Outcomes :
         VertexCreate(base, kw, outcome, "2", StoredProps)
    \/ \E id \in Ids, outcome \in Outcomes : VertexGet(id, outcome, StoredProps)
    \/ \E id \in Ids, outcome \in Outcomes : EdgeGet(id, outcome, StoredProps)
    \/ \E id \in Ids, base \in Bases, kw \in KwMaps, outcome \in Outcomes :
         VertexUpdate(id, base, kw, outcome)
    \/ \E id \in Ids, base \in Bases, kw \in KwMaps, outcome \in Outcomes :
         EdgeUpdate(id, base, kw, outcome)
    \/ \E outV \in VertexArgs, label \in {None, "knows"}, base \in Bases,
          kw \in KwMaps, outcome \in Outcomes :
         EdgeCreate(outV, label, "2", base, kw, outcome, "1", StoredProps)
    \/ \E e \in Elems, outcome \in Outcomes : Save(e, outcome)

ProxySpec == InitProxy /\ [][NextProxy]_vars

----------------------------------------------------------------------------
(* VertexProxy.get_or_create under concurrent callers.  Each request to    *)
(* the server (the index lookup, the create) is one step; the callers'     *)
(* steps interleave freely, as nothing in the proxy locks.                 *)

\* index.get_unique(key, value): a vertex the index holds under value x,
\* None (0) when it holds none.
get_unique(x) ==
    IF index[x] = {} THEN 0
    ELSE CHOOSE n \in index[x] : \A m \in index[x] : n <= m

\* Creating whatever the lookup returned.
ShouldCreate_Always(v) == TRUE

\* `if vertex is None:`
ShouldCreate(v) == v = 0

\* A caller calls g.vertices.get_or_create(key, x).
CallGetOrCreate(c, x) ==
    /\ pc[c] = "idle"
    /\ calls[c] < MaxCalls
    /\ pc' = [pc EXCEPT ![c] = "lookup"]
    /\ arg' = [arg EXCEPT ![c] = x]
    /\ calls' = [calls EXCEPT ![c] = @ + 1]
    /\ found' = [found EXCEPT ![c] = 0]
    /\ vertex' = [vertex EXCEPT ![c] = 0]
    /\ created' = [created EXCEPT ![c] = 0]
    /\ UNCHANGED <<index, nverts, autoindex>>
    /\ UNCHANGED <<cls, dict, heap, result, pretty, log, initAt, last, proxyVars>>

\* vertex = self.index.get_unique(key, value)
Lookup(c) ==
    /\ pc[c] = "lookup"
    /\ found' = [found EXCEPT ![c] = get_unique(arg[c])]
    /\ vertex' = [vertex EXCEPT ![c] = get_unique(arg[c])]
    /\ pc' = [pc EXCEPT ![c] = "decide"]
    /\ UNCHANGED <<arg, created, calls, index, nverts, autoindex>>
    /\ UNCHANGED <<cls, dict, heap, result, pretty, log, initAt, last, proxyVars>>

\* if vertex is None: vertex = self.create(_data, **kwds)
\* The server makes the vertex, and indexes it when it autoindexes.
Create(c) ==
    /\ pc[c] = "decide"
    /\ ShouldCreate(vertex[c])
    /\ nverts' = nverts + 1
    /\ vertex' = [vertex EXCEPT ![c] = nverts + 1]
    /\ created' = [created EXCEPT ![c] = @ + 1]
    /\ index' = IF autoindex
                THEN [index EXCEPT ![arg[c]] = @ \cup {nverts + 1}]
                ELSE index
    /\ pc' = [pc EXCEPT ![c] = "return"]
    /\ UNCHANGED <<arg, found, calls, autoindex>>
    /\ UNCHANGED <<cls, dict, heap, result, pretty, log, initAt, last, proxyVars>>

\* The lookup found a vertex: no create.
Keep(c) ==
    /\ pc[c] = "decide"
    /\ ~ShouldCreate(vertex[c])
    /\ pc' = [pc EXCEPT ![c] = "return"]
    /\ UNCHANGED <<arg, found, vertex, created, calls, index, nverts, autoindex>>
    /\ UNCHANGED <<cls, dict, heap, result, pretty, log, initAt, last, proxyVars>>

\* return vertex
Return(c) ==
    /\ pc[c] = "return"
    /\ pc' = [pc EXCEPT ![c] = "idle"]
    /\ UNCHANGED <<arg, found, vertex, created, calls, index, nverts, autoindex>>
    /\ UNCHANGED <<cls, dict, heap, result, pretty, log, initAt, last, proxyVars>>

InitRace ==
    /\ Constructed([e \in Elems |-> None])
    /\ call = NoCall
    /\ net = <<>>
    /\ \E ai \in BOOLEAN : NoRace(ai)

NextRace ==
    \/ \E c \in Callers, x \in IndexVals : CallGetOrCreate(c, x)
    \/ \E c \in Callers : Lookup(c)
    \/ \E c \in Callers : Create(c)
    \/ \E c \in Callers : Keep(c)
    \/ \E c \in Callers : Return(c)

RaceSpec == InitRace /\ [][NextRace]_vars

----------------------------------------------------------------------------
(* Vocabulary of the properties *)

\* The instance attributes __init__ and _initialize create.
InstanceAttrs == {"_client", "_data", "_result", "_vertices", "_edges",
                  "_initialized"}

\* The structural attribute names of class c: the id, the type, the
\* configured id name, and for an Edge the label and the endpoints.
StructuralNames(c) ==
    {"_id", "_type", IdVar}
        \cup (IF c = "Edge" THEN {"_label", "_outV", "_inV", "label", "outV", "inV"}
              ELSE {})

\* _initialize has run on e.
WasInitialized(e) == initAt[e] >= 0

\* The value of the expression e.k in the current state.
Read(e, k) == GetAttr(dict[e], heap, result, cls[e], pretty, k)

\* The property data of e: what e.map() returns.
Data(e) == MapOf(dict[e], heap)

\* m overridden by the writes of s, in order.
RECURSIVE Override(_, _)
Override(m, s) ==
    IF s = <<>> THEN m
    ELSE Override([m EXCEPT ![Head(s).k] = Head(s).v], Tail(s))

\* The last operation was the attribute write  e.k = v.
JustWrote == last.op = "setattr"

----------------------------------------------------------------------------
(* C1: write, then read *)

\* C1 (as stated): on an initialized Element, for every key that is not a
\* structural attribute name, a write of v to the key followed by a read of
\* the key returns v, whatever writes came before.
C1_WriteReadStructural ==
    (JustWrote /\ WasInitialized(last.e) /\ last.k \notin StructuralNames(cls[last.e]))
        => Read(last.e, last.k) = last.v

\* C1 (amended): on an initialized Element, for every key that is not the
\* name of an attribute of its class (a property or a method), a write of v
\* to the key that does not raise, followed by a read of the key, returns v,
\* whatever writes came before.
C1_WriteRead ==
    (/\ JustWrote
     /\ WasInitialized(last.e)
     /\ last.ret = None
     /\ ~IsProperty(cls[last.e], pretty, last.k)
     /\ ~IsMethod(cls[last.e], last.k))
        => Read(last.e, last.k) = last.v

\* A write of a property key landed in the property data after another
\* write, and reads back.
C1_Witness ==
    /\ JustWrote
    /\ WasInitialized(last.e)
    /\ last.k = "name"
    /\ Len(log[last.e]) >= 2
    /\ dict[last.e]["name"] = Absent
    /\ Read(last.e, "name") = last.v

----------------------------------------------------------------------------
(* C2: map() after N writes *)

\* C2: after _initialize(result) followed by attribute writes of names
\* that are no instance attributes, map() is the result's property map
\* overridden by exactly those writes, a later one overriding an earlier.
C2_MapIsOverride ==
    \A e \in Elems :
        (/\ initAt[e] = 0
         /\ \A i \in 1..Len(log[e]) : log[e][i].k \notin InstanceAttrs)
            => /\ Data(e)[1] \in Addrs
               /\ Data(e)[2] = Override(result[e].props, log[e])

\* Two writes of one key with different values onto a non-empty initial map.
C2_Witness ==
    \E e \in Elems :
        /\ initAt[e] = 0
        /\ Len(log[e]) = 2
        /\ log[e][1].k = "name" /\ log[e][2].k = "name"
        /\ log[e][1].v # log[e][2].v
        /\ result[e].props["name"] # Absent
        /\ Data(e)[2]["name"] = log[e][2].v

----------------------------------------------------------------------------
(* C9: the dual-path write *)

\* This step is the attribute write  e.k = v  (every write extends log).
WriteStep(e, k, v) ==
    /\ log' # log
    /\ last' = [op |-> "setattr", e |-> e, k |-> k, v |-> v, ret |-> last'.ret]

\* The write is made before the element is initialized, or to a name that
\* already is an instance attribute.
FieldCase(e, k) ==
    dict[e]["_initialized"] \in {Absent, PyFalse} \/ dict[e][k] # Absent

\* A write in the field case changes at most attribute k of e's __dict__,
\* to v unless it raises, and no dict object.
FieldFrame(e, k, v) ==
    /\ heap' = heap
    /\ \A e2 \in Elems, k2 \in Names :
         (e2 # e \/ k2 # k) => dict'[e2][k2] = dict[e2][k2]
    /\ last'.ret = None => dict'[e][k] = v

\* A write in the data case changes at most key k of e's property data, to
\* v unless it raises, and no __dict__.
DataFrame(e, k, v) ==
    /\ dict' = dict
    /\ \A a \in Addrs, k2 \in Names :
         (a # dict[e]["_data"] \/ k2 # k) => heap'[a][k2] = heap[a][k2]
    /\ last'.ret = None => heap'[dict[e]["_data"]][k] = v

\* C9 (as stated): a write in the field case changes only the field store
\* and leaves the property data unchanged; a write in the data case
\* changes only key k of the property data and leaves the field store
\* unchanged.
C9_DualPathStated ==
    [][\A e \in Elems, k \in Names, v \in Vals :
         WriteStep(e, k, v) =>
             IF FieldCase(e, k)
             THEN FieldFrame(e, k, v) /\ Data(e)' = Data(e)
             ELSE DataFrame(e, k, v)]_vars

\* C9 (amended): as stated, except that a field-case write to the name
\* _data rebinds the property data to the written value; the contents of
\* every dict object are still unchanged by it.
C9_DualPath ==
    [][\A e \in Elems, k \in Names, v \in Vals :
         WriteStep(e, k, v) =>
             IF FieldCase(e, k)
             THEN FieldFrame(e, k, v) /\ (k # "_data" => Data(e)' = Data(e))
             ELSE DataFrame(e, k, v)]_vars

\* Both paths were taken on one element: a write before initialization sits
\* in __dict__, a write after it in the property data.
C9_Witness ==
    /\ JustWrote
    /\ last.ret = None
    /\ WasInitialized(last.e)
    /\ initAt[last.e] = 1
    /\ dict[last.e][log[last.e][1].k] = log[last.e][1].v
    /\ dict[last.e][last.k] = Absent
    /\ Data(last.e)[1] \in Addrs
    /\ Data(last.e)[2][last.k] = last.v

----------------------------------------------------------------------------
(* C10: structural names and the property data *)

\* C10: a structural attribute name is a key of an Element's property data
\* only as part of the copy of the result's map made at initialization; no
\* attribute write puts one there.
C10_NoStructuralKeys ==
    \A e \in Elems :
        cls[e] # None =>
            \A k \in StructuralNames(cls[e]) \cap Names :
                (Data(e)[1] \in Addrs /\ Data(e)[2][k] # Absent)
                    => (WasInitialized(e) /\ result[e].props[k] # Absent)

----------------------------------------------------------------------------
(* C3: equality *)

\* e came out of _initialize with its Result and its flag set.
IsInitialized(e) ==
    /\ WasInitialized(e)
    /\ dict[e]["_result"] = ResTok(e)
    /\ dict[e]["_initialized"] # Absent

\* The property data of a and of b are identical.
SameData(a, b) ==
    IF Data(a)[1] \in Addrs /\ Data(b)[1] \in Addrs
    THEN Data(a)[2] = Data(b)[2]
    ELSE Data(a)[1] \notin Addrs /\ Data(a)[1] = Data(b)[1]

\* C3: two initialized Elements are equal iff they are of the same variant,
\* have the same id and identical property data; != is the negation of ==.
C3_Equality ==
    \A a \in Elems, b \in Elems :
        (IsInitialized(a) /\ IsInitialized(b)) =>
            LET same == /\ cls[a] = cls[b]
                        /\ result[a].id = result[b].id
                        /\ SameData(a, b)
            IN  /\ ElementEq(a, b) = (IF same THEN PyTrue ELSE PyFalse)
                /\ ElementNe(a, b) = (IF same THEN PyFalse ELSE PyTrue)

\* Two distinct elements found equal after a write made them so.
C3_Witness ==
    /\ last.op = "eq"
    /\ last.e # last.k
    /\ IsInitialized(last.e) /\ IsInitialized(last.k)
    /\ last.ret = PyTrue
    /\ Len(log[last.e]) = 1
    /\ heap[RM(last.e)] # heap[RM(last.k)]

----------------------------------------------------------------------------
(* C4: get on an identifier the server does not hold *)

\* The last proxy call was a get of the vertex or of the edge proxy and the
\* client reported LookupError for it.
GetNotFound ==
    /\ call.op \in {"vertex_get", "edge_get"}
    /\ Len(net) = 1
    /\ net[1].outcome = LookupError

\* C4: whenever the client reports a LookupError for the identifier,
\* VertexProxy.get and EdgeProxy.get return None and raise nothing.
C4_GetReturnsNone == GetNotFound => call.ret = None /\ call.err = None

\* Both a vertex and an edge were fetched before, and the get that follows
\* ends in a LookupError at the client.
C4_Witness ==
    /\ GetNotFound
    /\ call.op = "edge_get"
    /\ cls["e1"] = "Vertex"
    /\ call.ret = None

----------------------------------------------------------------------------
(* C5: EdgeProxy.create with no label *)

\* C5: EdgeProxy.create with a None label ends in an error and makes no
\* client interaction, whatever outV, inV, _data and the keywords are.
C5_NullLabelFailsFirst ==
    call.op = "edge_create" /\ call.label = None
        => call.err # None /\ Len(net) = 0

\* A create with a None label, a Vertex object as outV and a payload.
C5_Witness ==
    /\ call.op = "edge_create"
    /\ call.label = None
    /\ call.outV \in Elems
    /\ call.base = Caller
    /\ call.kw # EmptyMap
    /\ call.err = AssertionError

----------------------------------------------------------------------------
(* C6: the payload sent to the client *)

\* C6 as stated: for create and update of both proxies, the payload the
\* client is passed is the base mapping (empty when _data is None)
\* overridden by the keyword fields.
C6_PayloadIsMerge ==
    /\ call.op \in {"vertex_create", "vertex_update", "edge_create", "edge_update"}
    /\ Len(net) = 1
    => /\ net[1].payload \in Addrs
       /\ net[1].content = DictUpdate(call.basemap, call.kw)

----------------------------------------------------------------------------
(* C7: what update and save return *)

\* C7 as stated: an update of either proxy, and so a save of a Vertex or of
\* an Edge, that the client answered returns the client's response.
C7_UpdateReturnsResponse ==
    /\ call.op \in {"vertex_update", "edge_update", "vertex_save", "edge_save"}
    /\ Len(net) = 1
    /\ net[1].outcome = "ok"
    => call.ret = Response

----------------------------------------------------------------------------
(* C8: get_or_create is not atomic *)

\* Caller c alone has ever called get_or_create.
OnlyCaller(c) == \A o \in Callers \ {c} : calls[o] = 0

\* C8: one call issues at most one create request: none when its lookup
\* returned a vertex, and one by the time it returns when its lookup
\* returned None; and with a single caller on an autoindexing server the
\* index never holds two vertices under one value.
C8_OneCreatePerCall ==
    /\ \A c \in Callers :
         /\ created[c] <= 1
         /\ found[c] # 0 => created[c] = 0
         /\ pc[c] = "return" /\ found[c] = 0 => created[c] = 1
    /\ \A c \in Callers :
         OnlyCaller(c) /\ autoindex
            => \A x \in IndexVals : Cardinality(index[x]) <= 1

\* The race: both callers, with the same value, on an index that held no
\* match, saw None and each issued a create, so the server holds two
\* vertices under the value.
C8_Witness ==
    /\ autoindex
    /\ \A c \in Callers :
         /\ pc[c] = "return"
         /\ calls[c] = 1
         /\ arg[c] = "James"
         /\ found[c] = 0
         /\ created[c] = 1
    /\ nverts = 2
    /\ Cardinality(index["James"]) = 2

----------------------------------------------------------------------------
(* C11: the structural accessors under attribute writes *)

\* The structural accessors of class c.
Accessors(c) ==
    {"_id", "_type", IdVar}
        \cup (IF c = "Edge" THEN {"_outV", "_inV", "_label"} ELSE {})

\* What accessor k is to return: the field of the Result res.
ResultField(res, k) ==
    CASE k \in {"_id", IdVar} -> res.id
      [] k = "_type" -> res.type
      [] k = "_outV" -> res.outV
      [] k = "_inV" -> res.inV
      [] k = "_label" -> res.label

\* Every accessor of e returns the field of the Result e was initialized
\* with.
AccessorsOfResult(e) ==
    \A k \in Accessors(cls[e]) : Read(e, k) = ResultField(result[e], k)

\* No attribute write made on e since construction names _result.
ResultUntouched(e) ==
    \A i \in 1..Len(log[e]) : log[e][i].k # "_result"

\* C11 (as stated): after initialization, whatever attribute writes are
\* made on an Element, its structural accessors return the id and the type
\* (and for an Edge the endpoints and the label) of the Result given to
\* _initialize.
C11_AccessorsFixedStated ==
    \A e \in Elems : initAt[e] = 0 => AccessorsOfResult(e)

\* C11 (amended): after initialization, whatever attribute writes other
\* than writes of the instance attribute _result are made on an Element,
\* its structural accessors return the id and the type (and for an Edge the
\* endpoints and the label) of the Result given to _initialize.
C11_AccessorsFixed ==
    \A e \in Elems :
        initAt[e] = 0 /\ ResultUntouched(e) => AccessorsOfResult(e)

\* An initialized Edge after writes of _id and _label: both are keys of its
\* property data, and the accessors still return the Result's id and label.
C11_Witness ==
    \E e \in Elems :
        /\ cls[e] = "Edge"
        /\ initAt[e] = 0
        /\ Len(log[e]) = 2
        /\ ResultUntouched(e)
        /\ Data(e)[1] \in Addrs
        /\ Data(e)[2]["_id"] = "v1"
        /\ Data(e)[2]["_label"] = "v1"
        /\ Read(e, "_id") = result[e].id
        /\ Read(e, "_label") = "knows"

----------------------------------------------------------------------------
(* C12: the copy _initialize makes of the Result's property map.  The      *)
(* copy specification: an element initialized with a property map that     *)
(* holds a nested mutable value (empty when decoded), then written, and    *)
(* the nested value changed in place.                                      *)

\* Decoded property maps with a nested value under "age".
NestedProps == {[EmptyMap EXCEPT !["age"] = Nested],
                [EmptyMap EXCEPT !["name"] = "v1", !["age"] = Nested]}
NestedShapes ==
    [id : Ids, type : {"vertex"}, outV : {None}, inV : {None}, label : {None},
     props : NestedProps]
      \cup [id : Ids, type : {"edge"}, outV : {"1"}, inV : {"2"},
            label : {"knows"}, props : NestedProps]

\* The property keys written and read in the copy specification.
CopyKeys == {"name", "age"}

\* The in-place change of the value an attribute read returns:  e.k[kk] = v
MutateViaAttr(e, k, kk, v) ==
    /\ cls[e] # None
    /\ Read(e, k) = Nested
    /\ heap' = [heap EXCEPT ![Nested][kk] = v]
    /\ last' = [op |-> "mutate", e |-> e, k |-> k, v |-> v, ret |-> None]
    /\ UNCHANGED <<cls, dict, result, pretty, log, initAt, proxyVars, raceVars>>

\* The in-place change of a value of map():  e.map()[k][kk] = v
MutateViaMap(e, k, kk, v) ==
    /\ cls[e] # None
    /\ Data(e)[1] \in Addrs
    /\ Data(e)[2][k] = Nested
    /\ heap' = [heap EXCEPT ![Nested][kk] = v]
    /\ last' = [op |-> "mutate_map", e |-> e, k |-> k, v |-> v, ret |-> None]
    /\ UNCHANGED <<cls, dict, result, pretty, log, initAt, proxyVars, raceVars>>

NextCopy ==
    \/ \E e \in Elems, shape \in NestedShapes : Initialize(e, shape)
    \/ \E e \in Elems, k \in CopyKeys, v \in Vals : SetAttr(e, k, v)
    \/ \E e \in Elems, k \in CopyKeys, kk \in CopyKeys, v \in Vals :
         MutateViaAttr(e, k, kk, v)
    \/ \E e \in Elems, k \in CopyKeys, kk \in CopyKeys, v \in Vals :
         MutateViaMap(e, k, kk, v)

CopySpec == Init /\ [][NextCopy]_vars

\* The dict at address a of heap h as a value: its items, and the contents
\* of the nested values its items refer to.
DeepValue(h, a) ==
    [top |-> h[a],
     nested |-> [k \in Names |-> IF h[a][k] \in Addrs THEN h[h[a][k]]
                                 ELSE EmptyMap]]

\* The property map of e's Result as it was decoded: the nested value empty.
DecodedValue(e) ==
    [top |-> result[e].props, nested |-> [k \in Names |-> EmptyMap]]

\* C12 (as stated): after initialization, no attribute write of a top-level
\* key and no in-place change of a nested value reached through map() or an
\* attribute read changes the property map held by the Result.
C12_ResultMapUnchanged ==
    \A e \in Elems :
        initAt[e] = 0 => DeepValue(heap, RM(e)) = DecodedValue(e)

----------------------------------------------------------------------------
(* C13: build_data and the caller's mapping *)

\* The last proxy call was a create or an update that got as far as
\* build_data (a create of an edge with no label does not).
BuiltData ==
    /\ call.op \in {"vertex_create", "vertex_update", "edge_create", "edge_update"}
    /\ call.err # AssertionError

\* C13: when the caller passes a mapping to a create or an update, after
\* the call that mapping holds its items overridden by the keyword fields,
\* the payload the client got is that mapping itself, and no other mapping
\* was made; when the caller passes none, a fresh mapping holding the
\* keyword fields is made and the payload is not a mapping of the caller.
C13_MergedInPlace ==
    BuiltData =>
        /\ Len(net) = 1
        /\ call.base = Caller =>
             /\ heap[Caller] = DictUpdate(call.basemap, call.kw)
             /\ net[1].payload = Caller
             /\ net[1].content = heap[Caller]
             /\ heap[Fresh] = EmptyMap
        /\ call.base = None =>
             /\ heap[Fresh] = DictUpdate(EmptyMap, call.kw)
             /\ heap[Caller] = EmptyMap
             /\ net[1].payload # Caller

\* An update of a vertex with a mapping and a keyword field that collides
\* with one of its keys: the caller's mapping now holds the keyword value
\* and was the payload.
C13_Witness ==
    /\ call.op = "vertex_update"
    /\ call.base = Caller
    /\ call.basemap["name"] = "v1"
    /\ call.basemap["age"] = "v1"
    /\ call.kw["name"] = PyFalse
    /\ heap[Caller]["name"] = PyFalse
    /\ heap[Caller]["age"] = "v1"
    /\ Len(net) = 1
    /\ net[1].payload = Caller

====
